---- MODULE Spec2Model ----
(***************************************************************************)
(* Model of src/a.cc: a microbenchmark that times allocation, first touch, *)
(* parallel sum and release of a large int buffer for four allocation      *)
(* strategies (hp_vec, mmap_vec<21>, mmap_vec<30>, vec).                    *)
(*                                                                         *)
(* Two state machines share the buffer classes and the OpenMP loops:       *)
(*   Spec    - the program: main() calling run_bench<T>() four times;      *)
(*   BufSpec - one buffer object driven by an arbitrary sequence of        *)
(*             init / free / touch pass / sum() calls that stay within     *)
(*             defined behaviour;                                          *)
(*   SumSpec - sum() on a buffer of any size and content.                  *)
(* Widths and sizes are scaled down: int has IntBits bits, size_t has      *)
(* 2*IntBits bits (32 and 64 in the build), the driver's buffer has MaxLen *)
(* slots (16 Gi in the build, more than the int range in both).            *)
(***************************************************************************)
EXTENDS Integers, Sequences, FiniteSets, Bags, TLC

\* ---------------------------------------------------------------- bounds
IntBits == 2
MaxLen == 3
MaxThreads == 2
MaxAddr == 2
TicksPerMs == 2
MaxClock == 3

\* ------------------------------------------------------- program constants
nullptr == 0
MAP_FAILED == -1

RECURSIVE Pow2(_)
Pow2(n) == IF n = 0 THEN 1 ELSE 2 * Pow2(n - 1)

IntMod == Pow2(IntBits)
IntMin == 0 - Pow2(IntBits - 1)
IntMax == Pow2(IntBits - 1) - 1
IntVals == IntMin..IntMax
SizeBits == 2 * IntBits
SizeMod == Pow2(SizeBits)
Indet == IntMod
Addr == 1..MaxAddr
ENOMEM == MaxAddr + 1

size == MaxLen

Variants == 1..4
Type(k) == <<"hp_vec", "mmap_vec", "mmap_vec", "vec">>[k]
Name(k) == <<"thp", "2mb_hp", "1gb_hp", "malloc">>[k]

VARIABLES
    pc, cur, v, heap, mem,
    nthr, todo, part, ans,
    now, start_main, start,
    t_alloc, t_touch, t_sum, t_free, t_total,
    out, exit_status,
    ret, hist, writes, touchers, reads, viol

bufvars == <<v, heap, mem>>
ompvars == <<nthr, todo, part, ans>>
clkvars == <<now, start_main, start>>
tvars == <<t_alloc, t_touch, t_sum, t_free, t_total>>
iovars == <<out, exit_status>>
accvars == <<writes, touchers, reads, viol>>
vars == <<pc, cur, bufvars, ompvars, clkvars, tvars, iovars, ret, hist, accvars>>

\* ------------------------------------------------------------ conversions
\* Mutant: the index is cast to a type one bit narrower than int.
ToIntNarrow(i) ==
    LET h == Pow2(IntBits - 1)
        m == i % h
    IN IF 2 * m >= h THEN m - h ELSE m

\* static_cast<int>(i) of a size_t: the low IntBits bits, two's complement.
ToInt(i) ==
    LET m == i % IntMod IN IF m > IntMax THEN m - IntMod ELSE m

\* static_cast<std::size_t>(x) of an int: sign extension, then modulo 2^SizeBits.
ToSizeT(x) == x % SizeMod

\* ans += term on a std::size_t.
AddSizeT(a, b) == (a + b) % SizeMod

\* Mutant: the duration is rounded up to the next whole millisecond.
msCeil(s, e) == (e - s + TicksPerMs - 1) \div TicksPerMs

\* duration_cast<milliseconds>(end - start).count(): truncation toward zero.
ms(s, e) ==
    IF e - s >= 0 THEN (e - s) \div TicksPerMs ELSE 0 - ((s - e) \div TicksPerMs)

\* high_resolution_clock::now(): what the next reading may be, the clock being
\* taken as non-decreasing; now is the last reading.
ClockReads == now..MaxClock

\* --------------------------------------------------------- the allocators
\* r is what the system gives: the address of a block not in use, or ENOMEM.
\* Addresses are interchangeable, so the lowest free one stands for all of them.
FreeAddr == Addr \ heap
AllocResults ==
    {a \in FreeAddr : \A b \in FreeAddr : a <= b} \cup {ENOMEM}

\* posix_memalign leaves *memptr untouched when it fails.
posix_memalign(old, r) == IF r = ENOMEM THEN old ELSE r
\* Mutant: a failed mapping is reported as a null pointer.
mmapNull(r) == IF r = ENOMEM THEN nullptr ELSE r

\* mmap answers MAP_FAILED when it fails, malloc a null pointer.
mmap(r) == IF r = ENOMEM THEN MAP_FAILED ELSE r
malloc(r) == IF r = ENOMEM THEN nullptr ELSE r

NewObject == [size |-> 0, data |-> nullptr]
NoMem == [i \in {} |-> 0]

hp_vec_init(self, n, r) == [size |-> n, data |-> posix_memalign(self.data, r)]
mmap_vec_init(self, n, r) == [size |-> n, data |-> mmap(r)]
vec_init(self, n, r) == [size |-> n, data |-> malloc(r)]

init(k, self, n, r) ==
    CASE Type(k) = "hp_vec" -> hp_vec_init(self, n, r)
      [] Type(k) = "mmap_vec" -> mmap_vec_init(self, n, r)
      [] Type(k) = "vec" -> vec_init(self, n, r)

hp_vec_ok(self) == self.data # nullptr
mmap_vec_ok(self) == self.data # MAP_FAILED
vec_ok(self) == self.data # nullptr

ok(k, self) ==
    CASE Type(k) = "hp_vec" -> hp_vec_ok(self)
      [] Type(k) = "mmap_vec" -> mmap_vec_ok(self)
      [] Type(k) = "vec" -> vec_ok(self)

\* Anonymous mappings are zero-filled; heap memory is indeterminate.
FreshMem(k, n) ==
    [i \in 0..(n - 1) |-> IF Type(k) = "mmap_vec" THEN 0 ELSE Indet]

\* The heap and the block's content after init(n) got r from the system.
HeapAfterInit(r) == IF r = ENOMEM THEN heap ELSE heap \cup {r}
MemAfterInit(k, self, n, r) ==
    IF r # ENOMEM THEN FreshMem(k, n)
    ELSE IF init(k, self, n, r).data \in heap THEN mem ELSE NoMem

\* free(): munmap / std::free / ::free of data; the fields are left as they are.
HeapAfterFree(self) == heap \ {self.data}

\* The buffer holds backing memory: data points to a block in use.
Holds(self) == self.data \in heap
\* data points to a block that has been released.
Stale(self) == self.data \in Addr \ heap
BlockLen == Cardinality(DOMAIN mem)

\* ------------------------------------------------------------ ghost state
\* hist[k]: what has happened to variant k's buffer object: how its last init
\* ended, what ok() returned to run_bench, and how often run_bench was entered,
\* ran the touch pass, called sum(), called free() and returned. content and
\* summed follow the block's content: "fresh", "stored" (operator[] writes) or
\* "touched" (a whole touch pass), and whether ret is sum() of that content, as
\* computed by a team of `team` threads.
NoHist == [last |-> "none", okret |-> "none", started |-> 0, touches |-> 0,
           sums |-> 0, frees |-> 0, returned |-> 0,
           content |-> "fresh", summed |-> FALSE, team |-> 0]
Bump(f) == [hist EXCEPT ![cur][f] = @ + 1]

\* An access of slot i is valid when the block is in use and i is inside it.
BadAccess(i) == ~(Holds(v) /\ i < v.size /\ i < BlockLen)

NoWrites == [i \in 0..(MaxLen - 1) |-> 0]
Written == {i \in DOMAIN writes : writes[i] > 0}

\* ------------------------------------------------------- the OpenMP loops
Workers == 1..nthr
Line(n, l, x) == [name |-> n, label |-> l, val |-> x]

\* #pragma omp parallel for: a team of t threads is formed and the iterations
\* 0..n-1 are handed out, each to one thread of the team. part is the bag of the
\* private copies of a reduction variable held by the threads still running,
\* each copy starting at 0 (threads with equal copies are interchangeable).
\* Mutant: the loop runs while i <= size.
IterationsLE(n) == 0..n

\* for (std::size_t i = 0; i < size; ++i)
Iterations(n) == 0..(n - 1)

Fork(n, t) ==
    /\ nthr' = t
    /\ todo' = Iterations(n)
    /\ part' = [p \in {0} |-> t]

\* The team is gone when the loop's barrier has been passed.
Join ==
    /\ nthr' = 1
    /\ todo' = {}
    /\ part' = EmptyBag

\* The iterations a thread may be given: those no thread has been given.
TouchIters == todo

\* v[i] = static_cast<int>(i)
TouchStore(i) == [mem EXCEPT ![i] = ToInt(i)]

TouchStep(w) ==
    /\ pc = "touch"
    /\ w \in Workers
    /\ \E i \in TouchIters :
        /\ mem' = TouchStore(i)
        /\ todo' = todo \ {i}
        /\ writes' = [writes EXCEPT ![i] = @ + 1]
        /\ viol' = (viol \/ BadAccess(i))
    /\ touchers' = touchers \cup {w}
    /\ UNCHANGED <<pc, cur, v, heap, nthr, part, ans, clkvars, tvars, iovars, ret,
                   hist, reads>>

\* data[i]; outside the block the read yields anything.
Load(i) == IF i \in DOMAIN mem THEN {mem[i]} ELSE IntVals

\* ans += static_cast<std::size_t>(data[i]), by a thread whose private copy of
\* ans is p.
SumStep(p) ==
    /\ pc = "sum"
    /\ BagIn(p, part)
    /\ \E i \in todo :
        /\ \E x \in Load(i) :
            part' = (part (-) SetToBag({p})) (+) SetToBag({AddSizeT(p, ToSizeT(x))})
        /\ todo' = todo \ {i}
        /\ reads' = reads \cup {i}
        /\ viol' = (viol \/ BadAccess(i))
    /\ UNCHANGED <<pc, cur, bufvars, nthr, ans, clkvars, tvars, iovars, ret, hist,
                   writes, touchers>>

\* Mutant: the shared ans is overwritten, not added to (a lost update).
CombineLost(a, p) == p

\* reduction(+ : ans): the private copy is added to the shared ans, atomically.
Combine(a, p) == AddSizeT(a, p)

\* A thread that takes no more iterations leaves the loop: its private copy p is
\* combined into ans. The last thread leaves when no iteration is left.
SumCombine(p) ==
    /\ pc = "sum"
    /\ BagIn(p, part)
    /\ todo = {} \/ BagCardinality(part) > 1
    /\ ans' = Combine(ans, p)
    /\ part' = part (-) SetToBag({p})
    /\ UNCHANGED <<pc, cur, bufvars, nthr, todo, clkvars, tvars, iovars, ret, hist,
                   accvars>>

\* Mutant: the touch loop does not wait for its threads (nowait).
TouchDoneNoWait == TRUE

\* The barrier that ends a parallel loop.
TouchDone == todo = {}
SumDone == todo = {} /\ part = EmptyBag

\* ------------------------------------------------------------- the driver
\* main: long t_x = ms([&] { run_bench<T>(name); }) -- the clock is read and
\* run_bench is entered with a new T v.
MainBegin ==
    /\ pc = "main"
    /\ \E c \in ClockReads : now' = c /\ start_main' = c
    /\ v' = NewObject
    /\ hist' = Bump("started")
    /\ pc' = "alloc"
    /\ UNCHANGED <<cur, heap, mem, ompvars, start, tvars, iovars, ret, accvars>>

\* run_bench: long t_alloc = ms([&] { v.init(size); }) -- up to the end of init.
RbAlloc ==
    /\ pc = "alloc"
    /\ \E c \in ClockReads : now' = c /\ start' = c
    /\ \E r \in AllocResults :
        /\ v' = init(cur, v, size, r)
        /\ heap' = HeapAfterInit(r)
        /\ mem' = MemAfterInit(cur, v, size, r)
        /\ hist' = [hist EXCEPT ![cur].last = IF r = ENOMEM THEN "fail" ELSE "ok"]
    /\ pc' = "alloc_end"
    /\ UNCHANGED <<cur, ompvars, start_main, tvars, iovars, ret, accvars>>

\* Mutant: the duration is printed as soon as it is measured.
RbAllocEndPrint ==
    /\ pc = "alloc_end"
    /\ \E c \in ClockReads : now' = c /\ t_alloc' = ms(start, c)
    /\ out' = Append(out, Line(Name(cur), "time alloc", t_alloc'))
    /\ start' = 0
    /\ pc' = "check"
    /\ UNCHANGED <<cur, bufvars, ompvars, start_main, t_touch, t_sum, t_free,
                   t_total, exit_status, ret, hist, accvars>>

RbAllocEnd ==
    /\ pc = "alloc_end"
    /\ \E c \in ClockReads : now' = c /\ t_alloc' = ms(start, c)
    /\ start' = 0
    /\ pc' = "check"
    /\ UNCHANGED <<cur, bufvars, ompvars, start_main, t_touch, t_sum, t_free,
                   t_total, iovars, ret, hist, accvars>>

\* Mutant: the failure path prints the allocation time as well.
FailLinesTimed ==
    <<Line(Name(cur), "failed to allocate memory", 0),
      Line(Name(cur), "time alloc", t_alloc), Line("", "", 0)>>

\* if (!v.ok()) { print "<name> failed to allocate memory"; print ""; return; }
FailLines == <<Line(Name(cur), "failed to allocate memory", 0), Line("", "", 0)>>

\* What run_bench leaves behind when it returns: its locals are gone.
Return ==
    /\ v' = NewObject
    /\ mem' = NoMem
    /\ t_alloc' = 0 /\ t_touch' = 0 /\ t_sum' = 0 /\ t_free' = 0
    /\ writes' = NoWrites
    /\ touchers' = {}
    /\ reads' = {}
    /\ pc' = "main_end"

RbFail ==
    /\ pc = "check"
    /\ ~ok(cur, v)
    /\ out' = out \o FailLines
    /\ hist' = [hist EXCEPT ![cur].okret = "false", ![cur].returned = @ + 1]
    /\ Return
    /\ UNCHANGED <<cur, heap, ompvars, clkvars, t_total, exit_status, ret, viol>>

\* long t_touch = ms([&] { #pragma omp parallel for ... }) -- the team starts.
TouchBegin ==
    /\ pc = "check"
    /\ ok(cur, v)
    /\ \E c \in ClockReads : now' = c /\ start' = c
    /\ \E t \in 1..MaxThreads : Fork(size, t)
    /\ hist' = [hist EXCEPT ![cur].okret = "true", ![cur].touches = @ + 1]
    /\ pc' = "touch"
    /\ UNCHANGED <<cur, bufvars, ans, start_main, tvars, iovars, ret, accvars>>

TouchEnd ==
    /\ pc = "touch"
    /\ TouchDone
    /\ Join
    /\ \E c \in ClockReads : now' = c /\ t_touch' = ms(start, c)
    /\ start' = 0
    /\ pc' = "sum_begin"
    /\ UNCHANGED <<cur, bufvars, ans, start_main, t_alloc, t_sum, t_free,
                   t_total, iovars, ret, hist, accvars>>

\* long t_sum = ms([&] { cout << name << " sum: " << v.sum() << endl; })
SumBegin ==
    /\ pc = "sum_begin"
    /\ \E c \in ClockReads : now' = c /\ start' = c
    /\ ans' = 0
    /\ \E t \in 1..MaxThreads : Fork(v.size, t)
    /\ touchers' = {}
    /\ hist' = Bump("sums")
    /\ pc' = "sum"
    /\ UNCHANGED <<cur, bufvars, start_main, tvars, iovars, ret, writes, reads, viol>>

\* sum() returns ans and the "sum" line is printed, inside the timed lambda.
SumLine(x) == Line(Name(cur), "sum", x)

SumEnd ==
    /\ pc = "sum"
    /\ SumDone
    /\ Join
    /\ out' = Append(out, SumLine(ans))
    /\ ans' = 0
    /\ pc' = "sum_end"
    /\ UNCHANGED <<cur, bufvars, clkvars, tvars, exit_status, ret, hist, accvars>>

SumTimed ==
    /\ pc = "sum_end"
    /\ \E c \in ClockReads : now' = c /\ t_sum' = ms(start, c)
    /\ start' = 0
    /\ pc' = "free"
    /\ UNCHANGED <<cur, bufvars, ompvars, start_main, t_alloc, t_touch, t_free,
                   t_total, iovars, ret, hist, accvars>>

\* long t_free = ms([&] { v.free(); })
RbFree ==
    /\ pc = "free"
    /\ \E c \in ClockReads : now' = c /\ start' = c
    /\ heap' = HeapAfterFree(v)
    /\ mem' = NoMem
    /\ hist' = Bump("frees")
    /\ pc' = "free_end"
    /\ UNCHANGED <<cur, v, ompvars, start_main, tvars, iovars, ret, accvars>>

RbFreeEnd ==
    /\ pc = "free_end"
    /\ \E c \in ClockReads : now' = c /\ t_free' = ms(start, c)
    /\ start' = 0
    /\ pc' = "report"
    /\ UNCHANGED <<cur, bufvars, ompvars, start_main, t_alloc, t_touch, t_sum,
                   t_total, iovars, ret, hist, accvars>>

\* The four "time" lines and the blank line that end run_bench.
ReportLines ==
    <<Line(Name(cur), "time alloc", t_alloc), Line(Name(cur), "time touch", t_touch),
      Line(Name(cur), "time sum", t_sum), Line(Name(cur), "time free", t_free),
      Line("", "", 0)>>

RbReport ==
    /\ pc = "report"
    /\ out' = out \o ReportLines
    /\ hist' = Bump("returned")
    /\ Return
    /\ UNCHANGED <<cur, heap, ompvars, clkvars, t_total, exit_status, ret, viol>>

\* main: run_bench has returned, ms() reads the clock again and t_x is set.
MainEnd ==
    /\ pc = "main_end"
    /\ \E c \in ClockReads :
        now' = c /\ t_total' = [t_total EXCEPT ![cur] = ms(start_main, c)]
    /\ start_main' = 0
    /\ IF cur < 4
          THEN cur' = cur + 1 /\ pc' = "main"
          ELSE cur' = cur /\ pc' = "summary"
    /\ UNCHANGED <<bufvars, ompvars, start, t_alloc, t_touch, t_sum, t_free,
                   iovars, ret, hist, accvars>>

\* Mutant: two summary lines change places.
SummaryLinesSwapped ==
    [k \in 1..4 |-> LET j == <<1, 3, 2, 4>>[k] IN Line("", "time " \o Name(j), t_total[j])]

\* The four summary lines, and return 0.
SummaryLines == [k \in 1..4 |-> Line("", "time " \o Name(k), t_total[k])]

MainSummary ==
    /\ pc = "summary"
    /\ out' = out \o SummaryLines
    /\ exit_status' = 0
    /\ pc' = "done"
    /\ UNCHANGED <<cur, bufvars, ompvars, clkvars, tvars, ret, hist, accvars>>

Common ==
    /\ v = NewObject
    /\ heap = {}
    /\ mem = NoMem
    /\ nthr = 1
    /\ todo = {}
    /\ part = EmptyBag
    /\ ans = 0
    /\ now = 0
    /\ start_main = 0
    /\ start = 0
    /\ t_alloc = 0 /\ t_touch = 0 /\ t_sum = 0 /\ t_free = 0
    /\ t_total = [k \in Variants |-> 0]
    /\ out = <<>>
    /\ exit_status = -1
    /\ ret = 0
    /\ hist = [k \in Variants |-> NoHist]
    /\ writes = NoWrites
    /\ touchers = {}
    /\ reads = {}
    /\ viol = FALSE

Init ==
    /\ pc = "main"
    /\ cur = 1
    /\ Common

Next ==
    \/ MainBegin
    \/ RbAlloc
    \/ RbAllocEnd
    \/ RbFail
    \/ TouchBegin
    \/ \E w \in 1..MaxThreads : TouchStep(w)
    \/ TouchEnd
    \/ SumBegin
    \/ \E p \in 0..(SizeMod - 1) : SumStep(p)
    \/ \E p \in 0..(SizeMod - 1) : SumCombine(p)
    \/ SumEnd
    \/ SumTimed
    \/ RbFree
    \/ RbFreeEnd
    \/ RbReport
    \/ MainEnd
    \/ MainSummary

Spec == Init /\ [][Next]_vars


\* ------------------------------------------- one buffer, any call sequence
\* v.init(n), for any n and any answer of the system.
HInit ==
    /\ pc = "idle"
    /\ \E n \in 1..MaxLen, r \in AllocResults :
        /\ v' = init(cur, v, n, r)
        /\ heap' = HeapAfterInit(r)
        /\ mem' = MemAfterInit(cur, v, n, r)
        /\ hist' = [hist EXCEPT ![cur].last = IF r = ENOMEM THEN "fail" ELSE "ok",
                                ![cur].content = IF r = ENOMEM THEN @ ELSE "fresh",
                                ![cur].summed = FALSE, ![cur].team = 0]
    /\ ret' = 0
    /\ UNCHANGED <<pc, cur, ompvars, clkvars, tvars, iovars, accvars>>

\* v.free(), where the call is defined: data is a block in use, or the call
\* does nothing (free(nullptr), munmap of an address that is not mapped).
HFree ==
    /\ pc = "idle"
    /\ ~Stale(v)
    /\ heap' = HeapAfterFree(v)
    /\ mem' = IF Holds(v) THEN NoMem ELSE mem
    /\ hist' = [hist EXCEPT ![cur].content = IF Holds(v) THEN "fresh" ELSE @,
                            ![cur].summed = FALSE, ![cur].team = 0]
    /\ ret' = 0
    /\ UNCHANGED <<pc, cur, v, ompvars, clkvars, tvars, iovars, accvars>>

\* run_bench's touch pass over the buffer's v.size slots.
HTouchBegin ==
    /\ pc = "idle"
    /\ Holds(v)
    /\ v.size <= BlockLen
    /\ \E t \in 1..MaxThreads : Fork(v.size, t)
    /\ hist' = [hist EXCEPT ![cur].content = "stored", ![cur].summed = FALSE,
                            ![cur].team = 0]
    /\ ret' = 0
    /\ pc' = "touch"
    /\ UNCHANGED <<cur, bufvars, ans, clkvars, tvars, iovars, accvars>>

HTouchEnd ==
    /\ pc = "touch"
    /\ TouchDone
    /\ Join
    /\ hist' = [hist EXCEPT ![cur].content = "touched"]
    /\ writes' = NoWrites
    /\ touchers' = {}
    /\ pc' = "idle"
    /\ UNCHANGED <<cur, bufvars, ans, clkvars, tvars, iovars, ret, reads, viol>>

\* v.sum(), where every slot it reads has been given a value.
HSumBegin ==
    /\ pc = "idle"
    /\ Holds(v)
    /\ v.size <= BlockLen
    /\ \A i \in 0..(v.size - 1) : mem[i] # Indet
    /\ ans' = 0
    /\ \E t \in 1..MaxThreads : Fork(v.size, t)
    /\ hist' = [hist EXCEPT ![cur].summed = FALSE, ![cur].team = 0]
    /\ ret' = 0
    /\ pc' = "sum"
    /\ UNCHANGED <<cur, bufvars, clkvars, tvars, iovars, accvars>>

HSumEnd ==
    /\ pc = "sum"
    /\ SumDone
    /\ Join
    /\ ret' = ans
    /\ ans' = 0
    /\ hist' = [hist EXCEPT ![cur].summed = TRUE, ![cur].team = nthr]
    /\ reads' = {}
    /\ pc' = "idle"
    /\ UNCHANGED <<cur, bufvars, clkvars, tvars, iovars, writes, touchers, viol>>

BufInit ==
    /\ pc = "idle"
    /\ cur \in Variants
    /\ Common

BufNext ==
    \/ HInit
    \/ HFree
    \/ HTouchBegin
    \/ \E w \in 1..MaxThreads : TouchStep(w)
    \/ HTouchEnd
    \/ HSumBegin
    \/ \E p \in 0..(SizeMod - 1) : SumStep(p)
    \/ \E p \in 0..(SizeMod - 1) : SumCombine(p)
    \/ HSumEnd

BufSpec == BufInit /\ [][BufNext]_vars

\* ----------------------------------------------- sum() on any content
\* A buffer of any variant after a successful init(n), its n slots holding any
\* of the values Contents.
Contents == {IntMin, 0 - 1, 0, 1, IntMax}

SumInit ==
    /\ pc = "idle"
    /\ cur \in Variants
    /\ \E n \in 1..MaxLen :
        /\ v = [size |-> n, data |-> 1]
        /\ mem \in [0..(n - 1) -> Contents]
    /\ heap = {1}
    /\ hist = [k \in Variants |->
                 IF k = cur THEN [NoHist EXCEPT !.last = "ok", !.content = "stored"]
                 ELSE NoHist]
    /\ nthr = 1
    /\ todo = {}
    /\ part = EmptyBag
    /\ ans = 0
    /\ now = 0
    /\ start_main = 0
    /\ start = 0
    /\ t_alloc = 0 /\ t_touch = 0 /\ t_sum = 0 /\ t_free = 0
    /\ t_total = [k \in Variants |-> 0]
    /\ out = <<>>
    /\ exit_status = -1
    /\ ret = 0
    /\ writes = NoWrites
    /\ touchers = {}
    /\ reads = {}
    /\ viol = FALSE

SumNext ==
    \/ HSumBegin
    \/ \E p \in 0..(SizeMod - 1) : SumStep(p)
    \/ \E p \in 0..(SizeMod - 1) : SumCombine(p)
    \/ HSumEnd

SumSpec == SumInit /\ [][SumNext]_vars

\* The program again, with the fairness of a process that is always scheduled.
LiveSpec == Init /\ [][Next]_vars /\ WF_vars(Next)


\* ------------------------------------------------------------ the claims
\* The labels of the lines printed for variant k, in order.
RECURSIVE LabelsOf(_, _)
LabelsOf(k, o) ==
    IF o = <<>> THEN <<>>
    ELSE IF Head(o).name = Name(k) THEN <<Head(o).label>> \o LabelsOf(k, Tail(o))
    ELSE LabelsOf(k, Tail(o))

\* The value printed for variant k under label l (0 when there is none).
RECURSIVE ValueOf(_, _, _)
ValueOf(n, l, o) ==
    IF o = <<>> THEN 0
    ELSE IF Head(o).name = n /\ Head(o).label = l THEN Head(o).val
    ELSE ValueOf(n, l, Tail(o))

HasLine(n, l) == \E j \in 1..Len(out) : out[j].name = n /\ out[j].label = l
TimeLabels == <<"time alloc", "time touch", "time sum", "time free">>
Succeeded(k) == hist[k].returned = 1 /\ hist[k].okret = "true"
Failed(k) == hist[k].returned = 1 /\ hist[k].okret = "false"

\* n*(n-1)/2
Triangle(n) == (n * (n - 1)) \div 2

\* The sequential left-to-right sum of static_cast<size_t>(m[i]), i < n, modulo
\* 2^SizeBits.
RECURSIVE SeqSum(_, _)
SeqSum(m, n) ==
    IF n = 0 THEN 0 ELSE (SeqSum(m, n - 1) + (m[n - 1] % SizeMod)) % SizeMod

RECURSIVE SumOver(_, _)
SumOver(f, S) ==
    IF S = {} THEN 0
    ELSE LET x == CHOOSE y \in S : TRUE IN (f[x] + SumOver(f, S \ {x})) % SizeMod

\* The sum of the private copies in bag b, modulo 2^SizeBits.
BagSum(b) == SumOver([p \in BagToSet(b) |-> p * CopiesIn(p, b)], BagToSet(b))

\* sum() has returned ret for a block filled by a whole touch pass after a
\* successful init(v.size).
SummedAfterTouch ==
    /\ hist[cur].summed
    /\ hist[cur].content = "touched"
    /\ hist[cur].last = "ok"

\* C1 as stated: for every n (up to MaxLen, which exceeds the int range as 16 Gi
\* does), after init(n) and the touch pass sum() returns n*(n-1)/2 and every slot
\* i holds i, nothing having wrapped.
C1_SumIsTriangle ==
    SummedAfterTouch =>
        /\ ret = Triangle(v.size)
        /\ \A i \in 0..(v.size - 1) : mem[i] = i

\* C1 as amended: the same for every n up to 2^(IntBits-1), the number of
\* non-negative int values (2^31 in the build); there the sum does not wrap either.
C1_SumIsTriangleInIntRange ==
    (SummedAfterTouch /\ v.size <= Pow2(IntBits - 1)) =>
        /\ ret = Triangle(v.size)
        /\ Triangle(v.size) < SizeMod
        /\ \A i \in 0..(v.size - 1) : mem[i] = i

C1_Witness == SummedAfterTouch /\ v.size = Pow2(IntBits - 1)

\* C2: once init has been called, ok() is true exactly when the most recent init
\* acquired backing memory, whatever calls came before it.
C2_OkIffLastInitAcquired ==
    hist[cur].last # "none" => (ok(cur, v) <=> hist[cur].last = "ok")

\* C3: a variant whose ok() was false after init never runs the touch pass, never
\* calls sum() or free(), and once run_bench has returned its output is the one
\* line "<name> failed to allocate memory", with no sum or time line.
C3_FailureSkipsPhases ==
    \A k \in Variants :
        hist[k].okret = "false" =>
            /\ hist[k].touches = 0
            /\ hist[k].sums = 0
            /\ hist[k].frees = 0
            /\ hist[k].returned = 1
            /\ LabelsOf(k, out) = <<"failed to allocate memory">>

C3_Witness == \E k \in Variants : Failed(k) /\ pc = "done"

\* C4: run_bench is entered once per variant, in the order thp, 2mb_hp, 1gb_hp,
\* malloc, each only after the one before has returned; the four summary lines
\* are the last four lines, printed in that order once all four have returned;
\* and the program ends with exit status 0.
C4_Order ==
    /\ \A k \in Variants :
        /\ hist[k].started <= 1
        /\ hist[k].returned <= hist[k].started
        /\ hist[k].started = 1 => \A j \in 1..(k - 1) : hist[j].returned = 1
    /\ pc # "done" =>
        /\ exit_status # 0
        /\ \A k \in Variants : ~HasLine("", "time " \o Name(k))
    /\ pc = "done" =>
        /\ exit_status = 0
        /\ \A k \in Variants : hist[k].started = 1 /\ hist[k].returned = 1
        /\ Len(out) >= 4
        /\ \A k \in 1..4 :
            /\ out[Len(out) - 4 + k].name = ""
            /\ out[Len(out) - 4 + k].label = "time " \o Name(k)
        /\ \A j \in 1..(Len(out) - 4) : out[j].label \notin {"time " \o Name(k) : k \in 1..4}

C4_RunsAllAndExits == [](C4_Order) /\ <>(pc = "done" /\ exit_status = 0)

C4_Witness ==
    /\ pc = "done"
    /\ Failed(1) /\ Succeeded(2) /\ Failed(3) /\ Succeeded(4)

\* C5 as stated: each duration is printed before the next phase starts: "time
\* alloc" is out when the touch pass runs, "time touch" when sum() runs, "time
\* sum" when free() runs.
C5_PrintedAfterEachPhase ==
    /\ pc = "touch" => HasLine(Name(cur), "time alloc")
    /\ pc = "sum" => HasLine(Name(cur), "time touch")
    /\ pc = "free_end" => HasLine(Name(cur), "time sum")

\* C5 as amended: the four durations are printed together when all four phases
\* have been measured: while run_bench is running none of the variant's time
\* lines is out, and when it has returned after a successful init its lines are
\* sum, time alloc, time touch, time sum, time free, in that order.
C5_PrintedAfterAllPhases ==
    \A k \in Variants :
        /\ hist[k].returned = 0 =>
            \A j \in 1..4 : ~HasLine(Name(k), TimeLabels[j])
        /\ Succeeded(k) => LabelsOf(k, out) = <<"sum">> \o TimeLabels

C5_Witness == \E k \in Variants : Succeeded(k) /\ pc = "main_end"

\* The sum of the four phase durations printed for variant k.
PhaseSum(k) ==
    ValueOf(Name(k), "time alloc", out) + ValueOf(Name(k), "time touch", out)
        + ValueOf(Name(k), "time sum", out) + ValueOf(Name(k), "time free", out)

\* C6: the total main measures and reports for a variant that succeeded is at
\* least the sum of the four phase durations run_bench printed for it.
C6_TotalAtLeastPhases ==
    \A k \in Variants :
        /\ (Succeeded(k) /\ (k < cur \/ pc \in {"summary", "done"})) =>
            t_total[k] >= PhaseSum(k)
        /\ (Succeeded(k) /\ pc = "done") =>
            ValueOf("", "time " \o Name(k), out) >= PhaseSum(k)

C6_Witness ==
    /\ pc = "done"
    /\ \E k \in Variants :
        /\ Succeeded(k)
        /\ PhaseSum(k) >= 1
        /\ ValueOf("", "time " \o Name(k), out) = PhaseSum(k)

\* C7: free() is called at most once per buffer, only after a successful init,
\* and once run_bench has returned exactly once if init succeeded and never if it
\* failed; every write of the touch pass and every read of sum() hits a slot
\* i < size of a block that init has acquired and free() has not yet released.
C7_FreeOnceAndAccessesValid ==
    /\ ~viol
    /\ \A k \in Variants :
        /\ hist[k].frees <= 1
        /\ hist[k].frees = 1 => hist[k].last = "ok"
        /\ hist[k].returned = 1 =>
            hist[k].frees = (IF hist[k].last = "ok" THEN 1 ELSE 0)
    /\ Written \cup reads \subseteq 0..(v.size - 1)

C7_Witness ==
    /\ pc = "done"
    /\ \E k \in Variants : hist[k].frees = 1
    /\ \E k \in Variants : hist[k].frees = 0

\* C8: in the touch pass every slot is written at most once, so by at most one
\* thread; the slots written are those handed out; when the pass has ended every
\* slot has been written exactly once; and sum() reads a slot only when the whole
\* pass has ended.
C8_TouchWritesEachSlotOnce ==
    /\ \A i \in 0..(size - 1) : writes[i] <= 1
    /\ pc = "touch" =>
        /\ Written = Iterations(size) \ todo
        /\ touchers \subseteq Workers
        /\ Cardinality(touchers) <= Cardinality(Written)
        /\ reads = {}
    /\ pc = "sum_begin" =>
        /\ \A i \in 0..(size - 1) : writes[i] = 1
        /\ reads = {}
    /\ pc \in {"sum_begin", "sum", "sum_end", "free"} => Written = 0..(size - 1)
    /\ reads # {} => Written = 0..(size - 1)

C8_Witness ==
    /\ pc = "sum_begin"
    /\ Cardinality(touchers) = MaxThreads

\* C9: whatever the content, the number of threads, the way the iterations are
\* handed out and the order of the combines, sum() returns the sequential
\* left-to-right sum modulo 2^SizeBits; while it runs, the shared ans and the
\* private copies of the threads still running together hold the sum of the slots
\* read so far, so no update is lost.
C9_SumIsSequentialSum ==
    /\ hist[cur].summed => ret = SeqSum(mem, v.size)
    /\ pc = "sum" =>
        /\ BagCardinality(part) <= nthr
        /\ (ans + BagSum(part)) % SizeMod
            = SumOver([i \in DOMAIN mem |-> mem[i] % SizeMod], Iterations(v.size) \ todo)

C9_Witness ==
    /\ hist[cur].summed
    /\ hist[cur].team = MaxThreads
    /\ hist[cur].content = "stored"
    /\ v.size = MaxLen
    /\ \E i \in 0..(v.size - 1) : mem[i] < 0
    /\ ret # 0

====
